---------------------------- MODULE Spec2Model ----------------------------
(***************************************************************************)
(* Model of the chat relay of src/chat/src/main.rs: the wire codec         *)
(* (encode_packet, decode_packet), the framed transport (receive_packet)   *)
(* and the server engine (accept loop, per-connection receive loops, the   *)
(* broadcast thread, the SESSIONS registry and the NEXT_USER_ID counter).  *)
(*                                                                         *)
(* Rust slices are 0-based and half-open; TLA+ sequences are 1-based.      *)
(* Slice(buf, a, b) is Rust's buf[a..b]; buf[i + 1] is Rust's buf[i].      *)
(***************************************************************************)
EXTENDS Integers, Sequences, FiniteSets, TLC

(* ------------------------------ bounds --------------------------------- *)
\* connections the accept loop takes in one run of Spec
MaxConns == 2
\* Say messages forwarded to the broadcast channel in one run of Spec
MaxMsgs == 2
\* how far beyond the largest content that fits the codec cases go
MaxOver == 1
\* lines the client reads from its input in one run of SpecClient
MaxLines == 3

(* -------------------------- program constants -------------------------- *)
\* u16: AtomicU16 (NEXT_USER_ID), packet_length, Message.from, Message.to
U16 == 65536
\* Box<[u8; 1024]>
BufLen == 1024
\* (packet_length + 2) > 1024
MaxPacket == 1024
\* AtomicU16::new(1)
FirstUserId == 1

(* ------------------------------ helpers -------------------------------- *)
\* Rust's buf[a..b], for 0 <= a <= b <= Len(buf)
Slice(buf, a, b) == SubSeq(buf, a + 1, b)

\* NetworkEndian::read_u16 of a two-byte slice
read_u16(s) == s[1] * 256 + s[2]

\* little-endian read (a byte-order slip)
read_u16_le(s) == s[2] * 256 + s[1]

\* little-endian write (a byte-order slip)
write_u16_le(x) == <<x % 256, x \div 256>>

\* NetworkEndian::write_u16: the two bytes written
write_u16(x) == <<x \div 256, x % 256>>

\* buf with the bytes bs written at Rust offset a
Patch(buf, a, bs) ==
    SubSeq(buf, 1, a) \o bs \o SubSeq(buf, a + Len(bs) + 1, Len(buf))

ZeroBuf == [k \in 1..BufLen |-> 0]

(* ------------------------------ packets -------------------------------- *)
NoMessage == [from |-> 0, to |-> 0, content |-> <<>>]
UserList == [type |-> "UserList", message |-> NoMessage]
Say(m) == [type |-> "Say", message |-> m]

\* results of the codec and transport: Ok(packet), Err(error), or a panic
\* (nread: bytes of the stream consumed, n: encode_packet's return value)
Ok(p, k) == [kind |-> "Ok", packet |-> p, err |-> "", nread |-> k]
Err(e, k) == [kind |-> "Err", packet |-> UserList, err |-> e, nread |-> k]
Panic(k) == [kind |-> "Panic", packet |-> UserList, err |-> "", nread |-> k]

\* decode_packet reading `from` at the wrong byte order
decode_packet_le(buf) ==
    IF Len(buf) < 3 THEN Panic(0)
    ELSE LET packet_type == buf[3] IN
         CASE packet_type = 0 -> Ok(UserList, 0)
           [] packet_type = 1 ->
                IF Len(buf) < 7 THEN Panic(0)
                ELSE Ok(Say([from |-> read_u16_le(Slice(buf, 3, 5)),
                             to |-> read_u16(Slice(buf, 5, 7)),
                             content |-> Slice(buf, 7, Len(buf))]), 0)
           [] OTHER -> Err("UnknownPacketType", 0)

\* decode_packet(buf): buf[2] panics on a buffer shorter than 3 bytes, and
\* buf[3..5], buf[5..7], buf[7..] panic on a Say buffer shorter than 7
decode_packet(buf) ==
    IF Len(buf) < 3 THEN Panic(0)
    ELSE LET packet_type == buf[3] IN
         CASE packet_type = 0 -> Ok(UserList, 0)
           [] packet_type = 1 ->
                IF Len(buf) < 7 THEN Panic(0)
                ELSE Ok(Say([from |-> read_u16(Slice(buf, 3, 5)),
                             to |-> read_u16(Slice(buf, 5, 7)),
                             content |-> Slice(buf, 7, Len(buf))]), 0)
           [] OTHER -> Err("UnknownPacketType", 0)

\* an encode_packet that returns the payload length, not the frame's size
encode_packet_short(packet, buf) ==
    IF packet.type = "UserList"
    THEN [kind |-> "Ok", n |-> 1,
          buf |-> Patch(Patch(buf, 0, write_u16(1)), 2, <<0>>)]
    ELSE LET message == packet.message
             len == Len(message.content)
         IN  IF len + 7 > Len(buf)
             THEN [kind |-> "Panic", n |-> 0, buf |-> buf]
             ELSE LET b1 == Patch(buf, 3, write_u16(message.from))
                      b2 == Patch(b1, 5, write_u16(message.to))
                      b3 == Patch(b2, 7, message.content)
                      length == 1 + 2 + 2 + (len % U16)
                  IN  [kind |-> "Ok", n |-> length,
                       buf |-> Patch(Patch(b3, 0, write_u16(length)), 2, <<1>>)]

\* encode_packet(packet, buf): the buffer after the call and the value
\* returned, or a panic when buf[7..content.len() + 7] is out of range
encode_packet(packet, buf) ==
    IF packet.type = "UserList"
    THEN [kind |-> "Ok", n |-> 1 + 2,
          buf |-> Patch(Patch(buf, 0, write_u16(1)), 2, <<0>>)]
    ELSE LET message == packet.message
             len == Len(message.content)
         IN  IF len + 7 > Len(buf)
             THEN [kind |-> "Panic", n |-> 0, buf |-> buf]
             ELSE LET b1 == Patch(buf, 3, write_u16(message.from))
                      b2 == Patch(b1, 5, write_u16(message.to))
                      b3 == Patch(b2, 7, message.content)
                      length == 1 + 2 + 2 + (len % U16)
                  IN  [kind |-> "Ok", n |-> length + 2,
                       buf |-> Patch(Patch(b3, 0, write_u16(length)), 2, <<1>>)]

\* receive_packet(stream): stream is the bytes the peer has sent before it
\* stops (closes or errors).  packet_length + 2 is u16 arithmetic: with
\* overflow checks (debug build) it panics, without (release build) it wraps
\* and buf[2..total] panics because total < 2.
receive_packet(stream, overflow_checks) ==
    IF Len(stream) < 2 THEN Err("Io", Len(stream))
    ELSE LET packet_length == read_u16(Slice(stream, 0, 2))
             sum == packet_length + 2
         IN  IF sum >= U16 /\ overflow_checks THEN Panic(2)
             ELSE LET total == sum % U16 IN
                  IF total > MaxPacket THEN Err("PacketTooLong", 2)
                  ELSE IF total < 2 THEN Panic(2)
                  ELSE IF Len(stream) < total THEN Err("Io", Len(stream))
                  ELSE LET r == decode_packet(Slice(stream, 0, total))
                       IN  [r EXCEPT !.nread = total]

(* ------------------------------- state --------------------------------- *)
VARIABLES
    NEXT_USER_ID,   \* the AtomicU16 counter
    SESSIONS,       \* the registry: identity -> connection whose clone it holds
    lock,           \* the SESSIONS mutex: "free" or "bcast" (held across the writes)
    conn,           \* per connection: [st, user_id] of its receive loop
    peer,           \* per connection: the client end, "open" or "closed"
    channel,        \* the mpsc channel: messages in flight, oldest first
    bc,             \* the broadcast thread: [pc, seq, buf, todo]
    log,            \* per connection: the write_all calls made on its handle
    enq,            \* history: what each receive loop forwarded, in send order
    done,           \* history: the registry as each broadcast locked it
    issued,         \* history: number of identities handed out
    max_id,         \* history: largest identity handed out so far
    tc,             \* codec case under test
    tr,             \* its result
    client          \* client_main's foreground loop: [pc, input, sent, failed]

vars == <<NEXT_USER_ID, SESSIONS, lock, conn, peer, channel, bc, log,
          enq, done, issued, max_id, tc, tr, client>>

server_vars == <<NEXT_USER_ID, SESSIONS, lock, conn, peer, channel, bc, log,
                 enq, done, issued, max_id>>

Conns == 1..MaxConns

(* --------------------------- what peers send --------------------------- *)
\* Say, from = 0, to = 0, content "hi": what client_main sends
FrameHi == <<0, 7, 1, 0, 0, 0, 0, 104, 105>>
\* Say claiming from = 9, to = 258, empty content
FrameSpoof == <<0, 5, 1, 0, 9, 1, 2>>
FrameUserList == <<0, 1, 0>>
\* type byte 2
FrameUnknown == <<0, 1, 2>>
\* length prefix 1023: 1023 + 2 > 1024
FrameTooLong == <<3, 255>>
\* length prefix 0
FrameZero == <<0, 0>>
\* a Say frame of length 1: no from, to
FrameShortSay == <<0, 1, 1>>
\* length prefix 65535
FrameMax == <<255, 255>>
\* the peer closes: nothing more to read, or a frame cut short
StreamEof == <<>>
StreamCut == <<0, 7, 1, 0>>

SayFrames == {FrameHi, FrameSpoof}
EndedStreams == {StreamEof, StreamCut}
PeerStreams == SayFrames \cup EndedStreams \cup
               {FrameUserList, FrameUnknown, FrameTooLong, FrameZero,
                FrameShortSay, FrameMax}

(* ----------------------------- the registry ---------------------------- *)
\* s.insert(user_id, stream): adds the entry, replacing one with the same key
insert(s, user_id, stream) ==
    [k \in DOMAIN s \cup {user_id} |-> IF k = user_id THEN stream ELSE s[k]]

\* a remove that leaves the map as it is
remove_nothing(s, user_id) == s

\* s.remove(&user_id): no error if absent
remove(s, user_id) == [k \in DOMAIN s \ {user_id} |-> s[k]]

\* connection c's handle is a value of the registry
Registered(c) == \E k \in DOMAIN SESSIONS : SESSIONS[k] = c

\* NEXT_USER_ID.fetch_add(1, SeqCst): the new value; atomics wrap around
fetch_add(x) == (x + 1) % U16

(* --------------------------------- Init -------------------------------- *)
NoCase == [kind |-> "none"]

\* the foreground loop of client_main about to read its first line: the
\* lines read so far, the buffers handed to write_all, whether the last
\* write_all failed
ClientStart == [pc |-> "read", input |-> <<>>, sent |-> <<>>, failed |-> FALSE]

Init ==
    /\ NEXT_USER_ID = FirstUserId
    /\ SESSIONS = <<>>
    /\ lock = "free"
    /\ conn = [c \in Conns |-> [st |-> "none", user_id |-> 0]]
    /\ peer = [c \in Conns |-> "open"]
    /\ channel = <<>>
    /\ bc = [pc |-> "recv", seq |-> 0, buf |-> <<>>, todo |-> {}]
    /\ log = [c \in Conns |-> <<>>]
    /\ enq = <<>>
    /\ done = <<>>
    /\ issued = 0
    /\ max_id = 0
    /\ tc = NoCase
    /\ tr = NoCase
    /\ client = ClientStart

(* ----------------------------- accept loop ----------------------------- *)
\* the lowest connection slot not in use
FreeSlot(c) == conn[c].st = "none" /\ \A d \in Conns : d < c => conn[d].st # "none"

\* one iteration of the accept loop on Ok(stream): fetch_add, the insert under
\* the SESSIONS lock, and the spawn of the receive loop
Accept(c) ==
    /\ FreeSlot(c)
    /\ lock = "free"
    /\ NEXT_USER_ID' = fetch_add(NEXT_USER_ID)
    /\ SESSIONS' = insert(SESSIONS, NEXT_USER_ID, c)
    /\ conn' = [conn EXCEPT ![c] = [st |-> "running", user_id |-> NEXT_USER_ID]]
    /\ issued' = issued + 1
    /\ max_id' = IF NEXT_USER_ID > max_id THEN NEXT_USER_ID ELSE max_id
    /\ UNCHANGED <<lock, peer, channel, bc, log, enq, done, tc, tr, client>>

\* listerner.incoming() yields Err(e): printed, the loop goes on
AcceptError == UNCHANGED vars

(* ---------------------------- receive loops ---------------------------- *)
\* the client end of connection c goes away
PeerClose(c) ==
    /\ conn[c].st \in {"running", "panicked"}
    /\ peer[c] = "open"
    /\ peer' = [peer EXCEPT ![c] = "closed"]
    /\ UNCHANGED <<NEXT_USER_ID, SESSIONS, lock, conn, channel, bc, log,
                   enq, done, issued, max_id, tc, tr, client>>

\* a receive loop that forwards the message as the client sent it
ForwardAsSent(message, user_id) == message

\* message.from = user_id
Forward(message, user_id) == [message EXCEPT !.from = user_id]

\* one iteration of the receive loop of connection c, the peer having sent
\* `stream`: receive_packet, then the match on its result.  On Err the loop
\* takes the SESSIONS lock, removes its identity and returns, which drops
\* both handles of the socket: the connection is closed.  A panic unwinds the
\* thread from inside receive_packet and the registry keeps its handle.
ReceiveFrom(c, stream, overflow_checks) ==
    LET r == receive_packet(stream, overflow_checks) IN
    /\ conn[c].st = "running"
    /\ peer' = IF stream \in EndedStreams \/ r.kind = "Err"
               THEN [peer EXCEPT ![c] = "closed"] ELSE peer
    /\ CASE r.kind = "Ok" /\ r.packet.type = "UserList" ->
              UNCHANGED <<SESSIONS, conn, channel, enq>>
         [] r.kind = "Ok" /\ r.packet.type = "Say" ->
              /\ Len(enq) < MaxMsgs
              /\ channel' = Append(channel,
                     [message |-> Forward(r.packet.message, conn[c].user_id),
                      seq |-> Len(enq) + 1])
              /\ enq' = Append(enq, [c |-> c, user_id |-> conn[c].user_id,
                                     frame |-> stream])
              /\ UNCHANGED <<SESSIONS, conn>>
         [] r.kind = "Err" ->
              /\ lock = "free"
              /\ SESSIONS' = remove(SESSIONS, conn[c].user_id)
              /\ conn' = [conn EXCEPT ![c].st = "exited"]
              /\ UNCHANGED <<channel, enq>>
         [] r.kind = "Panic" ->
              /\ conn' = [conn EXCEPT ![c].st = "panicked"]
              /\ UNCHANGED <<SESSIONS, channel, enq>>
    /\ UNCHANGED <<NEXT_USER_ID, lock, bc, log, done, issued, max_id, tc, tr, client>>

Receive(c) ==
    \E stream \in (IF peer[c] = "open" THEN PeerStreams ELSE EndedStreams) :
        \E overflow_checks \in BOOLEAN : ReceiveFrom(c, stream, overflow_checks)

(* --------------------------- broadcast thread -------------------------- *)
\* the channel handing out its newest message
next_newest(ch) == Len(ch)

\* rx.into_iter(): the index of the message the channel hands out next
next_message(ch) == 1

\* an iteration that leaves the sender out
targets_others(s, seq) == {k \in DOMAIN s : s[k] # enq[seq].c}

\* for (_, stream) in &*s: the keys the iteration visits
targets(s, seq) == DOMAIN s

\* a broadcast that copies the handles and gives the lock back before writing
held_never(todo) == "free"

\* the guard s = SESSIONS.lock() lives to the end of the loop body: the lock
\* is the broadcast thread's while sessions are left to write to
held(todo) == IF todo = {} THEN "free" ELSE "bcast"

\* for message in rx: p = Packet::Say(message); encode_packet(&p, &mut buf);
\* let s = SESSIONS.lock().unwrap().  The lock is held until every session
\* has been written to.
BcastTake ==
    /\ bc.pc = "recv"
    /\ channel # <<>>
    /\ lock = "free"
    /\ LET i == next_message(channel)
           e == encode_packet(Say(channel[i].message), ZeroBuf)
           todo == targets(SESSIONS, channel[i].seq)
       IN  /\ bc' = [pc |-> IF e.kind # "Ok" THEN "panicked"
                            ELSE IF todo = {} THEN "recv" ELSE "write",
                     seq |-> channel[i].seq, buf |-> Slice(e.buf, 0, e.n),
                     todo |-> todo]
           /\ lock' = IF e.kind = "Ok" THEN held(todo) ELSE "free"
           /\ channel' = [k \in 1..(Len(channel) - 1) |->
                             IF k < i THEN channel[k] ELSE channel[k + 1]]
           /\ done' = Append(done, [seq |-> channel[i].seq,
                             targets |-> {SESSIONS[k] : k \in DOMAIN SESSIONS}])
    /\ UNCHANGED <<NEXT_USER_ID, SESSIONS, conn, peer, log, enq,
                   issued, max_id, tc, tr, client>>

\* a broadcast that stops at the first write error
after_error_stop(todo, k, ok) == IF ok THEN todo \ {k} ELSE {}

\* the sessions left to visit after writing to k: an error is only printed
after_write(todo, k, ok) == todo \ {k}

\* stream.write_all(&buf[0..packet_length]) on one session, in map order; the
\* guard s goes out of scope after the last one
BcastWrite(k, ok) ==
    /\ bc.pc = "write"
    /\ k \in bc.todo
    /\ ok \/ peer[SESSIONS[k]] = "closed"
    /\ log' = [log EXCEPT ![SESSIONS[k]] =
                  Append(@, [seq |-> bc.seq, bytes |-> bc.buf, ok |-> ok])]
    /\ LET todo == after_write(bc.todo, k, ok) IN
        /\ bc' = [bc EXCEPT !.todo = todo, !.pc = IF todo = {} THEN "recv" ELSE "write"]
        /\ lock' = held(todo)
    /\ UNCHANGED <<NEXT_USER_ID, SESSIONS, conn, peer, channel, enq,
                   done, issued, max_id, tc, tr, client>>

(* ------------------------------ server run ----------------------------- *)
Next ==
    \/ \E c \in Conns : Accept(c)
    \/ AcceptError
    \/ \E c \in Conns : PeerClose(c)
    \/ \E c \in Conns : Receive(c)
    \/ BcastTake
    \/ \E k \in DOMAIN SESSIONS : \E ok \in BOOLEAN : BcastWrite(k, ok)

Spec == Init /\ [][Next]_vars

\* the broadcast thread is scheduled, and its socket writes complete
SpecFair ==
    /\ Spec
    /\ WF_vars(BcastTake)
    /\ WF_vars(\E k \in DOMAIN SESSIONS : \E ok \in BOOLEAN : BcastWrite(k, ok))

(* ------------------- a long run: the counter wraps --------------------- *)
\* identities handed out in a run of SpecWrap: all of 1..65535, then 0 and 1
WrapIssues == U16 + 1

\* a later client takes the place of one whose connection has ended; the
\* first client is the one that stays
Recycle(c) ==
    /\ c # 1
    /\ conn[c].st = "exited"
    /\ ~Registered(c)
    /\ conn' = [conn EXCEPT ![c] = [st |-> "none", user_id |-> 0]]
    /\ peer' = [peer EXCEPT ![c] = "open"]
    /\ log' = [log EXCEPT ![c] = <<>>]
    /\ UNCHANGED <<NEXT_USER_ID, SESSIONS, lock, channel, bc, enq, done,
                   issued, max_id, tc, tr, client>>

NextWrap ==
    \/ \E c \in Conns : issued < WrapIssues /\ Accept(c)
    \/ \E c \in Conns : ReceiveFrom(c, StreamEof, TRUE)
    \/ \E c \in Conns : Recycle(c)

SpecWrap == Init /\ [][NextWrap]_vars

(* ----------------------- the codec, case by case ----------------------- *)
\* the largest content encode_packet can place in the buffer
MaxContent == BufLen - 7

U16Samples == {0, 258, 65535}
TypeSamples == {0, 1, 2, 255}

\* the body a peer sends after the length prefix: a type byte, then bytes
\* that depend on their position
Body(type, len) == [k \in 1..len |-> IF k = 1 THEN type ELSE (k * 7) % 256]

\* a length prefix, then as much of the body as fits a frame (never the 64 KiB
\* an oversized prefix announces) and three bytes of the next frame
StreamOf(length, type) ==
    write_u16(length)
        \o Body(type, IF length + 2 <= MaxPacket THEN length ELSE 0)
        \o FrameUserList

ContentOf(len, from) == [k \in 1..len |-> (k + from) % 256]

ReceiveCase(length, type, oc) ==
    [kind |-> "receive", stream |-> StreamOf(length, type), length |-> length,
     overflow_checks |-> oc]

\* a length-delimited buffer as receive_packet hands it to decode_packet:
\* len bytes (3 at least: the prefix and the type byte), the prefix correct
DecodeCase(type, len) ==
    [kind |-> "decode", buf |-> write_u16(len - 2) \o Body(type, len - 2)]

\* the buffer lengths of the decode cases: around the Say header, and a full frame
DecodeLens == (3..9) \cup {MaxPacket}

\* a caller's buffer that holds something else than zeroes before the call
UsedBuf == [k \in 1..BufLen |-> 170]

EncodeCase(packet) == [kind |-> "encode", packet |-> packet]

RoundTripCase(from, to, len) ==
    [kind |-> "roundtrip",
     message |-> [from |-> from, to |-> to, content |-> ContentOf(len, from)]]

\* every 16-bit length prefix under both builds; every frame that fits with
\* each sampled type byte; messages of every content length up to the
\* buffer's capacity and MaxOver beyond
InitCodec ==
    /\ NEXT_USER_ID = FirstUserId
    /\ SESSIONS = <<>>
    /\ lock = "free"
    /\ conn = [c \in Conns |-> [st |-> "none", user_id |-> 0]]
    /\ peer = [c \in Conns |-> "open"]
    /\ channel = <<>>
    /\ bc = [pc |-> "recv", seq |-> 0, buf |-> <<>>, todo |-> {}]
    /\ log = [c \in Conns |-> <<>>]
    /\ enq = <<>>
    /\ done = <<>>
    /\ issued = 0
    /\ max_id = 0
    /\ \/ \E length \in 0..(U16 - 1) : \E oc \in BOOLEAN :
              tc = ReceiveCase(length, 1, oc)
       \/ \E length \in 0..(MaxPacket - 2) : \E type \in TypeSamples \ {1} :
              tc = ReceiveCase(length, type, TRUE)
       \/ \E from \in U16Samples : \E to \in U16Samples :
              \E len \in 0..(MaxContent + MaxOver) :
                  \/ tc = RoundTripCase(from, to, len)
                  \/ tc = EncodeCase(Say([from |-> from, to |-> to,
                                          content |-> ContentOf(len, from)]))
       \/ tc = EncodeCase(UserList)
       \/ \E type \in 0..255 : \E len \in DecodeLens : tc = DecodeCase(type, len)
    /\ tr = NoCase
    /\ client = ClientStart

\* receive_packet on the stream of the case
DoReceive ==
    /\ tc.kind = "receive"
    /\ tr = NoCase
    /\ tr' = [kind |-> "receive", r |-> receive_packet(tc.stream, tc.overflow_checks)]
    /\ UNCHANGED <<server_vars, tc, client>>

\* encode_packet into a zeroed buffer, then decode_packet of its first n bytes
DoRoundTrip ==
    /\ tc.kind = "roundtrip"
    /\ tr = NoCase
    /\ LET e == encode_packet(Say(tc.message), ZeroBuf) IN
       tr' = [kind |-> "roundtrip", enc |-> e.kind, n |-> e.n,
              r |-> IF e.kind = "Ok" THEN decode_packet(Slice(e.buf, 0, e.n))
                    ELSE Panic(0)]
    /\ UNCHANGED <<server_vars, tc, client>>

\* decode_packet on the buffer of the case
DoDecode ==
    /\ tc.kind = "decode"
    /\ tr = NoCase
    /\ tr' = [kind |-> "decode", r |-> decode_packet(tc.buf)]
    /\ UNCHANGED <<server_vars, tc, client>>

\* encode_packet into a buffer of BufLen bytes
DoEncode ==
    /\ tc.kind = "encode"
    /\ tr = NoCase
    /\ LET e == encode_packet(tc.packet, UsedBuf) IN
       tr' = [kind |-> "encode", enc |-> e.kind, n |-> e.n, buf |-> e.buf]
    /\ UNCHANGED <<server_vars, tc, client>>

NextCodec == DoReceive \/ DoRoundTrip \/ DoDecode \/ DoEncode

SpecCodec == InitCodec /\ [][NextCodec]_vars

(* ------------------------------ the client ----------------------------- *)
\* char::is_whitespace, for the one-byte characters
white_space == {9, 10, 11, 12, 13, 32}

RECURSIVE trim_start(_)
trim_start(s) ==
    IF s # <<>> /\ Head(s) \in white_space THEN trim_start(Tail(s)) ELSE s

RECURSIVE trim_end(_)
trim_end(s) ==
    IF s # <<>> /\ s[Len(s)] \in white_space
    THEN trim_end(SubSeq(s, 1, Len(s) - 1)) ELSE s

\* str::trim
trim(s) == trim_end(trim_start(s))

\* a line of len letters and its newline
LongLine(len) == [k \in 1..(len + 1) |-> IF k <= len THEN 120 ELSE 10]

\* what read_line yields: end of input, blank lines, "hi", " hi " with a
\* carriage return, "a b", and lines around the longest that fits a frame
ClientLines ==
    {<<>>, <<10>>, <<32, 9, 13, 10>>, <<104, 105, 10>>,
     <<32, 104, 105, 32, 13, 10>>, <<97, 32, 98, 10>>}
        \cup {LongLine(len) : len \in (MaxContent - 1)..(MaxContent + MaxOver)}

\* one iteration of the foreground loop, read_line having yielded `line`:
\* trim, continue on an empty line, else Say with from 0 and to 0,
\* encode_packet into a zeroed 1024-byte buffer and write_all, which
\* succeeds or not; on an error the loop returns.  encode_packet panics when
\* the content does not fit the buffer.
ClientLine(line, ok) ==
    /\ client.pc = "read"
    /\ Len(client.input) < MaxLines
    /\ LET content == trim(line)
           p == Say([from |-> 0, to |-> 0, content |-> content])
           e == encode_packet(p, ZeroBuf)
           read == [client EXCEPT !.input = Append(@, line)]
       IN  client' =
               IF Len(content) = 0 THEN read
               ELSE IF e.kind = "Panic" THEN [read EXCEPT !.pc = "panicked"]
               ELSE [read EXCEPT !.sent = Append(@, Slice(e.buf, 0, e.n)),
                                 !.failed = ~ok,
                                 !.pc = IF ok THEN "read" ELSE "returned"]
    /\ UNCHANGED <<server_vars, tc, tr>>

\* read_line yields Err (the input is not UTF-8, or cannot be read): unwrap
\* panics
ClientReadError ==
    /\ client.pc = "read"
    /\ Len(client.input) < MaxLines
    /\ client' = [client EXCEPT !.pc = "panicked"]
    /\ UNCHANGED <<server_vars, tc, tr>>

NextClient ==
    \/ \E line \in ClientLines : \E ok \in BOOLEAN : ClientLine(line, ok)
    \/ ClientReadError

SpecClient == Init /\ [][NextClient]_vars

(* ------------------------------ properties ----------------------------- *)
\* the broadcast thread has taken message n off the channel
Taken(n) == \E i \in 1..Len(done) : done[i].seq = n

\* ... and has finished writing it
Completed(n) == Taken(n) /\ ~(bc.seq = n /\ bc.pc = "write")

\* message n was written (write_all was called) on connection c's handle
WrittenTo(c, n) == \E j \in 1..Len(log[c]) : log[c][j].seq = n

\* C1: an identity is a key of the registry if and only if the receive loop
\* accepted under it is alive; a loop that has stopped for any reason has
\* removed its identity.
C1_RegisteredIffAlive ==
    \A c \in Conns :
        /\ conn[c].st = "running" => conn[c].user_id \in DOMAIN SESSIONS
        /\ conn[c].st \in {"exited", "panicked"} =>
               conn[c].user_id \notin DOMAIN SESSIONS

\* C2: every message forwarded to the channel is eventually broadcast, and a
\* finished broadcast has written it to exactly the connections that were in
\* the registry when the broadcast took the lock, the sender's not excepted.
C2_EventuallyBroadcastToAll ==
    /\ [](\A i \in 1..Len(done) :
            Completed(done[i].seq) =>
                \A c \in Conns : c \in done[i].targets <=> WrittenTo(c, done[i].seq))
    /\ \A n \in 1..MaxMsgs : (Len(enq) >= n) ~> Completed(n)

\* a message has gone out to two sessions, one of them the sender's
C2_Witness ==
    \E i \in 1..Len(done) :
        /\ Completed(done[i].seq)
        /\ enq[done[i].seq].c \in done[i].targets
        /\ Cardinality(done[i].targets) >= 2
        /\ \A c \in done[i].targets : WrittenTo(c, done[i].seq)

\* C3: every frame written by the broadcast is the frame the client sent with
\* bytes 3..5 (from) replaced by the identity the server assigned to the
\* connection it arrived on; length, type, to and content are unchanged.
C3_FromIsAssignedIdentity ==
    \A c \in Conns : \A j \in 1..Len(log[c]) :
        LET bytes == log[c][j].bytes
            src == enq[log[c][j].seq]
        IN  /\ Len(bytes) = Len(src.frame)
            /\ bytes[4] * 256 + bytes[5] = src.user_id
            /\ src.user_id = conn[src.c].user_id
            /\ \A k \in 1..Len(bytes) : k \notin {4, 5} => bytes[k] = src.frame[k]

\* a frame that claimed from = 9 has been relayed
C3_Witness ==
    \E c \in Conns : \E j \in 1..Len(log[c]) :
        /\ enq[log[c][j].seq].frame = FrameSpoof
        /\ log[c][j].ok
        /\ log[c][j].bytes # FrameSpoof

\* C4: the identities handed out start at 1 and each is larger than every
\* identity handed out before it, however many connections are accepted.
C4_IdentitiesIncrease ==
    [][issued' > issued =>
          /\ NEXT_USER_ID > max_id
          /\ issued = 0 => NEXT_USER_ID = 1]_vars

\* C5: once a receive loop has performed its Remove and returned, no
\* broadcast writes to that connection's handle.
C5_NoWriteAfterRemove ==
    [][\A c \in Conns : conn[c].st = "exited" => log'[c] = log[c]]_vars

\* a session took part in one broadcast, was removed, and a later broadcast
\* went to the remaining sessions only
C5_Witness ==
    \E c \in Conns : \E i, j \in 1..Len(done) :
        /\ conn[c].st = "exited"
        /\ i < j
        /\ c \in done[i].targets
        /\ c \notin done[j].targets
        /\ done[j].targets # {}
        /\ Completed(done[j].seq)
        /\ ~WrittenTo(c, done[j].seq)

\* C6: the broadcast thread takes the messages in the order they were
\* forwarded, none skipped or repeated; each handle sees them in that order,
\* once each; and of two messages of one sender written to a recipient that
\* was registered at both broadcasts the earlier one is written first.
C6_SenderOrderKept ==
    /\ \A i \in 1..Len(done) : done[i].seq = i
    /\ \A c \in Conns : \A j, k \in 1..Len(log[c]) :
           j < k => log[c][j].seq < log[c][k].seq
    /\ \A c \in Conns : \A m1, m2 \in 1..Len(enq) :
           (/\ m1 < m2
            /\ enq[m1].c = enq[m2].c
            /\ Taken(m1) /\ Taken(m2)
            /\ c \in done[m1].targets
            /\ WrittenTo(c, m2))
           => \E j, k \in 1..Len(log[c]) :
                  j < k /\ log[c][j].seq = m1 /\ log[c][k].seq = m2

\* two different messages of one sender have both reached another connection,
\* in the order they were sent
C6_Witness ==
    \E c \in Conns :
        /\ Len(enq) >= 2
        /\ enq[1].c = enq[2].c
        /\ enq[1].c # c
        /\ enq[1].frame # enq[2].frame
        /\ Len(done) >= 2
        /\ done[1].targets = done[2].targets
        /\ Len(log[c]) >= 2
        /\ log[c][1].seq = 1 /\ log[c][2].seq = 2

\* C7: the broadcast thread never changes the registry and never stops; a
\* broadcast in which a write failed has still written to every session that
\* was registered.
C7_WriteFailureIsolated ==
    /\ [][bc' # bc => SESSIONS' = SESSIONS]_vars
    /\ [](bc.pc # "panicked")
    /\ [](\A i \in 1..Len(done) :
            (/\ Completed(done[i].seq)
             /\ \E c \in Conns : \E j \in 1..Len(log[c]) :
                    log[c][j].seq = done[i].seq /\ ~log[c][j].ok)
            => \A d \in done[i].targets : WrittenTo(d, done[i].seq))

\* a write failed, the same message reached another session, the failing
\* session is still registered and the next message was broadcast too
C7_Witness ==
    \E c, d \in Conns :
        /\ c # d
        /\ Len(log[c]) >= 2 /\ Len(log[d]) >= 2
        /\ ~log[c][1].ok
        /\ log[d][1].ok /\ log[d][1].seq = log[c][1].seq
        /\ log[d][2].ok /\ log[d][2].seq = log[c][2].seq
        /\ Registered(c)
        /\ Completed(log[c][2].seq)

\* C8: receive_packet returns PacketTooLong, having read the two prefix bytes
\* only, for every length prefix with length + 2 > 1024, and never for a
\* length prefix with length + 2 <= 1024.
C8_TooLongForEveryOversizedPrefix ==
    tr.kind = "receive" =>
        IF tc.length + 2 > MaxPacket
        THEN tr.r.kind = "Err" /\ tr.r.err = "PacketTooLong" /\ tr.r.nread = 2
        ELSE ~(tr.r.kind = "Err" /\ tr.r.err = "PacketTooLong")

\* C9: for content of 0 to 1017 bytes, decode_packet of the first n bytes
\* written by encode_packet(Say(m)) is Say(m): same from, to and content.
C9_RoundTrip ==
    (tr.kind = "roundtrip" /\ Len(tc.message.content) <= MaxContent) =>
        /\ tr.enc = "Ok"
        /\ tr.n = Len(tc.message.content) + 7
        /\ tr.r.kind = "Ok"
        /\ tr.r.packet.type = "Say"
        /\ tr.r.packet.message.from = tc.message.from
        /\ tr.r.packet.message.to = tc.message.to
        /\ tr.r.packet.message.content = tc.message.content

\* the largest message, with a from whose two bytes differ, came back
C9_Witness ==
    /\ tr.kind = "roundtrip"
    /\ Len(tc.message.content) = MaxContent
    /\ tc.message.from = 258
    /\ tc.message.to = 65535
    /\ tr.r.kind = "Ok"
    /\ tr.r.packet.message = tc.message

\* C10: when the receive loop of one connection ends, by an error or a panic,
\* every other connection keeps its receive loop and its registry entry, and
\* the broadcast thread and the registry lock are left as they were.
C10_FailureIsLocal ==
    [][\A c \in Conns :
          (conn[c].st = "running" /\ conn'[c].st \in {"exited", "panicked"}) =>
              /\ \A d \in Conns \ {c} :
                     /\ conn'[d] = conn[d]
                     /\ Registered(d) => Registered(d)'
              /\ bc' = bc
              /\ lock' = lock]_vars

C12_DecodeByTypeByte ==
    tr.kind = "decode" =>
        LET buf == tc.buf
            type == buf[3]
        IN  CASE type = 0 -> tr.r = Ok(UserList, 0)
              [] type = 1 ->
                    /\ tr.r.kind = "Ok"
                    /\ tr.r.packet.type = "Say"
                    /\ tr.r.packet.message.from = buf[4] * 256 + buf[5]
                    /\ tr.r.packet.message.to = buf[6] * 256 + buf[7]
                    /\ tr.r.packet.message.content = SubSeq(buf, 8, Len(buf))
              [] OTHER -> tr.r = Err("UnknownPacketType", 0)

\* C13: encode_packet(UserList) returns 3 and writes 00 01 00;
\* encode_packet(Say(m)), m fitting the buffer, writes the big-endian
\* length 5 + len(content), type 1, from, to and the content in this order,
\* returns length + 2 and leaves the bytes after the frame alone.
C13_EncodeLayout ==
    tr.kind = "encode" =>
        IF tc.packet.type = "UserList"
        THEN /\ tr.enc = "Ok"
             /\ tr.n = 3
             /\ SubSeq(tr.buf, 1, 3) = <<0, 1, 0>>
             /\ SubSeq(tr.buf, 4, BufLen) = SubSeq(UsedBuf, 4, BufLen)
        ELSE LET m == tc.packet.message
                 len == Len(m.content)
                 length == 5 + len
             IN  len <= MaxContent =>
                     /\ tr.enc = "Ok"
                     /\ tr.n = length + 2
                     /\ Len(tr.buf) = BufLen
                     /\ tr.buf[1] = length \div 256
                     /\ tr.buf[2] = length % 256
                     /\ tr.buf[3] = 1
                     /\ tr.buf[4] = m.from \div 256
                     /\ tr.buf[5] = m.from % 256
                     /\ tr.buf[6] = m.to \div 256
                     /\ tr.buf[7] = m.to % 256
                     /\ SubSeq(tr.buf, 8, 7 + len) = m.content
                     /\ SubSeq(tr.buf, tr.n + 1, BufLen)
                            = SubSeq(UsedBuf, tr.n + 1, BufLen)

\* a Say message that fills the buffer to its last byte has been encoded
C13_Witness ==
    /\ tr.kind = "encode"
    /\ tc.packet.type = "Say"
    /\ Len(tc.packet.message.content) = MaxContent
    /\ tc.packet.message.from = 258
    /\ tr.enc = "Ok"
    /\ tr.n = BufLen

\* C20: receive_packet always returns, a packet or an error; it never panics.
C20_ReceiveNeverPanics ==
    tr.kind = "receive" => tr.r.kind \in {"Ok", "Err"}

\* the sessions message n was broadcast to: the registry as the broadcast
\* thread locked it
TargetsOf(n) == done[CHOOSE i \in 1..Len(done) : done[i].seq = n].targets

\* the connections whose handles the registry holds
Handles == {SESSIONS[k] : k \in DOMAIN SESSIONS}

\* how many write_all calls for message n were made on connection c's handle
Writes(c, n) == Cardinality({j \in 1..Len(log[c]) : log[c][j].seq = n})

\* C14: Insert, Remove and a broadcast exclude each other: while writes of a
\* broadcast are left to do the registry does not change and is the one the
\* broadcast thread locked, and a finished broadcast has written once to each
\* session of that registry and to no other.
C14_BroadcastExclusive ==
    /\ [][bc.pc = "write" => SESSIONS' = SESSIONS]_vars
    /\ [](bc.pc = "write" =>
            /\ Handles = TargetsOf(bc.seq)
            /\ bc.todo \subseteq DOMAIN SESSIONS
            /\ \A c \in Conns :
                   Writes(c, bc.seq) =
                       IF \E k \in DOMAIN SESSIONS \ bc.todo : SESSIONS[k] = c
                       THEN 1 ELSE 0)
    /\ [](\A n \in 1..Len(enq) :
            Completed(n) =>
                \A c \in Conns :
                    Writes(c, n) = IF c \in TargetsOf(n) THEN 1 ELSE 0)

\* a broadcast to two sessions is half done while the peer of the session
\* still to be written to has gone away (its receive loop's Remove has to
\* wait) and the other session's write is in the log
C14_Witness ==
    /\ bc.pc = "write"
    /\ Cardinality(DOMAIN SESSIONS) = 2
    /\ \E k \in bc.todo :
           /\ bc.todo = {k}
           /\ conn[SESSIONS[k]].st = "running"
           /\ peer[SESSIONS[k]] = "closed"
           /\ Writes(SESSIONS[k], bc.seq) = 0
    /\ \E c \in Conns : Writes(c, bc.seq) = 1

\* the place of message n in the writes made on connection c's handle
Pos(c, n) == CHOOSE j \in 1..Len(log[c]) : log[c][j].seq = n

\* C15: messages are broadcast in the order they reached the channel, and
\* two sessions registered at the broadcasts of two messages are both
\* written the earlier message first, whoever sent them.
C15_SameOrderForAll ==
    /\ \A i, j \in 1..Len(done) : i < j => done[i].seq < done[j].seq
    /\ \A c, d \in Conns : \A m1, m2 \in 1..Len(enq) :
           (/\ m1 < m2
            /\ Completed(m1) /\ Completed(m2)
            /\ {c, d} \subseteq TargetsOf(m1) \cap TargetsOf(m2))
           => /\ Pos(c, m1) < Pos(c, m2)
              /\ Pos(d, m1) < Pos(d, m2)
              /\ log[c][Pos(c, m1)].seq = m1 /\ log[c][Pos(c, m2)].seq = m2
              /\ log[d][Pos(d, m1)].seq = m1 /\ log[d][Pos(d, m2)].seq = m2

\* two messages of two different senders have been written to both sessions
C15_Witness ==
    /\ Len(enq) = 2
    /\ enq[1].c # enq[2].c
    /\ Completed(1) /\ Completed(2)
    /\ \A c \in Conns : Len(log[c]) = 2 /\ c \in TargetsOf(1) \cap TargetsOf(2)

\* the bytes that went out on connection c's handle: the buffers of its
\* write_all calls one after the other
RECURSIVE Wire(_)
Wire(l) == IF l = <<>> THEN <<>> ELSE Head(l).bytes \o Wire(Tail(l))

\* a byte stream cut into frames the way receive_packet reads them; what is
\* left over when the bytes do not make up whole frames stays as a last piece
RECURSIVE Frames(_)
Frames(bytes) ==
    IF bytes = <<>> THEN <<>>
    ELSE IF Len(bytes) < 2 \/ Len(bytes) < read_u16(bytes) + 2 THEN <<bytes>>
    ELSE LET total == read_u16(bytes) + 2
         IN  <<SubSeq(bytes, 1, total)>> \o Frames(SubSeq(bytes, total + 1, Len(bytes)))

\* C16: only a step of the broadcast thread writes on a session's handle,
\* one whole buffer at a time; a message goes out with the same bytes on
\* every handle; a write fails only on a connection whose peer is gone; and
\* the bytes on each handle split into whole Say frames, one per write, in
\* the order of the writes.
C16_WholeFramesOnly ==
    /\ [][log' # log =>
             /\ bc.pc = "write"
             /\ bc' # bc
             /\ \E c \in Conns : \E ok \in BOOLEAN :
                    log' = [log EXCEPT ![c] =
                               Append(@, [seq |-> bc.seq, bytes |-> bc.buf,
                                          ok |-> ok])]]_vars
    /\ [](\A c, d \in Conns : \A j \in 1..Len(log[c]) : \A k \in 1..Len(log[d]) :
             log[c][j].seq = log[d][k].seq => log[c][j].bytes = log[d][k].bytes)
    /\ [](\A c \in Conns : \A j \in 1..Len(log[c]) :
             ~log[c][j].ok => peer[c] = "closed")
    /\ [](\A c \in Conns :
             /\ Frames(Wire(log[c])) = [j \in 1..Len(log[c]) |-> log[c][j].bytes]
             /\ \A j \in 1..Len(log[c]) :
                    /\ log[c][j].bytes[3] = 1
                    /\ decode_packet(log[c][j].bytes).kind = "Ok")

\* one connection has been written two different frames, the first of
\* which went to the other connection too
C16_Witness ==
    \E c, d \in Conns :
        /\ c # d
        /\ Len(log[c]) = 2
        /\ log[c][1].bytes # log[c][2].bytes
        /\ log[c][1].ok /\ log[c][2].ok
        /\ Len(log[d]) >= 1
        /\ log[d][1].bytes = log[c][1].bytes
\* C17: the identity an Insert of the accept loop puts in the registry is
\* not a key of the registry at that moment.
C17_InsertIsFresh ==
    [][issued' > issued => NEXT_USER_ID \notin DOMAIN SESSIONS]_vars

\* C18: a connection's handle leaves the registry only by the Remove of that
\* connection's own receive loop, as the loop returns.
C18_RemovedByOwnLoopOnly ==
    [][\A d \in Conns :
          (Registered(d) /\ ~Registered(d)') =>
              conn[d].st = "running" /\ conn'[d].st = "exited"]_vars
\* the lines of the input that are not blank
NonBlank(input) == SelectSeq(input, LAMBDA l : trim(l) # <<>>)

\* C19: the foreground loop sends nothing for a blank line and, for every
\* other line whatever its length, hands write_all one Say frame with from
\* 0, to 0 and the trimmed line as content, then reads on; it ends on a
\* failed write and on nothing else.
C19_OneFramePerLine ==
    /\ client.pc \in {"read", "returned"}
    /\ client.pc = "returned" <=> client.failed
    /\ Len(client.sent) = Len(NonBlank(client.input))
    /\ \A j \in 1..Len(client.sent) :
           decode_packet(client.sent[j]) =
               Ok(Say([from |-> 0, to |-> 0,
                       content |-> trim(NonBlank(client.input)[j])]), 0)
=============================================================================
